---- MODULE Spec2Model ----
(***************************************************************************)
(* Model of the Mautic deployment orchestration: scripts/setup.ts (main),  *)
(* scripts/mautic-deployer.ts (MauticDeployer) and                         *)
(* scripts/docker-manager.ts (DockerManager).                              *)
(*                                                                         *)
(* Strings are sequences of tokens.  A version is <<"5.2.1">> or           *)
(* <<"5.2.1", "-apache">>; an image reference is                           *)
(* <<"mautic/mautic", ":", "5.2.1", "-apache">>.  The token ":" is the     *)
(* only one that contains a colon and "-apache" the only one that contains *)
(* a dash, so split(':') and endsWith('-apache') are computed on tokens.   *)
(***************************************************************************)
EXTENDS Integers, Sequences, FiniteSets, Bags, TLC

VARIABLES config, host, pc, results, loc, calls, snap

vars == <<config, host, pc, results, loc, calls, snap>>

(***************************************************************************)
(* Bounds                                                                  *)
(***************************************************************************)
\* number of spontaneous events of the container runtime during one
\* waitForHealthy call: container state changes (health verdicts, crashes)
\* and failed inspections
MaxEvents == 2

(***************************************************************************)
(* Program constants                                                       *)
(***************************************************************************)
PollInterval == 15
DbInstallTimeout == 180
WebInstallTimeout == 300
DefaultTimeout == 300
QuorumThreshold == 3

\* null / undefined: a one-token sequence no string of the program equals
NULL == <<"<null>">>

(***************************************************************************)
(* Strings                                                                 *)
(***************************************************************************)
endsWithApache(v) == Len(v) > 0 /\ v[Len(v)] = "-apache"

\* mautic-deployer.ts:104-106: version with the -apache suffix appended
\* unless it already carries it
baseVersion(v) == IF endsWithApache(v) THEN v ELSE v \o <<"-apache">>

imageName(v) == <<"mautic/mautic", ":">> \o baseVersion(v)

\* positions of the ":" separators of s
ColonPositions(s) == {i \in 1..Len(s) : s[i] = ":"}

Min(S) == CHOOSE x \in S : \A y \in S : x <= y

\* s.split(':')[1]: the segment between the first and the second ":",
\* undefined (NULL) when s holds no ":"
splitColonSecond(s) ==
  IF ColonPositions(s) = {} THEN NULL
  ELSE LET p1 == Min(ColonPositions(s))
           rest == {i \in ColonPositions(s) : i > p1}
           p2 == IF rest = {} THEN Len(s) + 1 ELSE Min(rest)
       IN SubSeq(s, p1 + 1, p2 - 1)

\* JavaScript truthiness of a string-or-null value
truthy(s) == s # NULL /\ s # <<>>

(***************************************************************************)
(* Configuration and host                                                  *)
(***************************************************************************)
Versions == {<<"5.2.1">>, <<"5.2.1", "-apache">>}

\* domainName "" is a domain that is not configured
Configs == [mauticVersion : Versions,
            domainName    : {"", "mkt.example.com"},
            ipAddress     : {"203.0.113.5"},
            port          : {"8001"},
            mauticThemes  : {<<>>, <<"theme-a", "theme-b">>},
            mauticPlugins : {<<>>, <<"plugin-a">>},
            githubToken   : {""}]

\* mautic-deployer.ts:253: the lists are multi-line strings, one item a
\* line; <<>> is a list that is not configured
hasExtensions(cfg) == cfg.mauticThemes # <<>> \/ cfg.mauticPlugins # <<>>

NotFound == [exists |-> FALSE, image |-> <<>>, status |-> "", health |-> ""]

Container(img, st, h) == [exists |-> TRUE, image |-> img, status |-> st, health |-> h]

InstalledImages == {imageName(<<"5.2.0">>), imageName(<<"5.2.1">>)}

DbImage == <<"mysql", ":", "8.0">>

TemplateImage == <<"mautic/mautic", ":", "${MAUTIC_VERSION}">>

\* what the compose tool substitutes for ${MAUTIC_VERSION} from .mautic_env
resolveImage(img, envVersion) ==
  IF Len(img) = 3 /\ img[3] = "${MAUTIC_VERSION}"
  THEN <<"mautic/mautic", ":">> \o envVersion
  ELSE img

InitWebContainers ==
  {NotFound} \cup {Container(i, "running", "healthy") : i \in InstalledImages}

InitDbContainers ==
  {NotFound, Container(DbImage, "running", "healthy"), Container(DbImage, "exited", "")}

\* volumes: the volumes docker created for the services' containers
\* hosts a run can find: a blank VPS after deploy.sh copied (or failed to
\* copy) the manifest, a host left by an earlier run, and the partial
\* states in between
InitHosts ==
  {h \in [compose      : BOOLEAN,
          composeImage : {TemplateImage, imageName(<<"5.2.0">>)},
          dirs         : BOOLEAN,
          env          : {"absent", "0600"},
          envVersion   : {<<>>, baseVersion(<<"5.2.0">>)},
          web          : InitWebContainers,
          db           : InitDbContainers,
          volumes      : BOOLEAN,
          appInstalled : BOOLEAN] :
     /\ h.volumes = (h.web.exists \/ h.db.exists)
     /\ (h.env = "absent") = (h.envVersion = <<>>)
     /\ ~h.compose => h.composeImage = TemplateImage
     /\ h.appInstalled => (h.dirs /\ h.compose /\ h.env = "0600")}

\* a command handed to ProcessManager.runShell: the exit code its process
\* ends with, the ignoreError option, and what the caller got back
NoCommand ==
  [exitCode |-> -1, ignoreError |-> FALSE,
   result |-> [raised |-> FALSE, success |-> FALSE, exitCode |-> -1]]

\* the source of an extension item as installTheme / installPlugin see it:
\* https://<host>/<path> with the optional query parameters token and
\* directory ("" when absent)
NoSource == [host |-> "", path |-> "", token |-> "", directory |-> ""]

\* a download: the kind of item, its source, and the curl command built for
\* it (the Authorization token it carries, "" for none, and the URL it
\* fetches)
NoDownload ==
  [kind |-> "", source |-> NoSource,
   command |-> [authorization |-> "", host |-> "", path |-> "", query |-> FALSE]]

\* deploy.sh while it watches the setup binary: where it is (phase), its
\* COUNTER and SETUP_EXIT_CODE (deploy.sh:320-321), the marker line the
\* completion monitor appended to the setup log ("none" when there is none),
\* its own exit status (-1 while it runs) and whether it wrote mautic-url
NoDeploy ==
  [phase |-> "none", counter |-> 0, setupExitCode |-> 255, marker |-> "none",
   exit |-> -1, urlWritten |-> FALSE]

\* the order in which the probes of isInstalled completed is a history
\* kept only where it is observed (SpecProbes); elsewhere it stays Unobserved
Unobserved == <<"unobserved">>

InitLoc ==
  [isInstalled     |-> "unset",
   needsUpdate     |-> "unset",
   currentVersion  |-> NULL,
   proc            |-> "none",
   pullSuccess     |-> "unset",
   rewriteOk       |-> "unset",
   recreateSuccess |-> "unset",
   waitName        |-> "",
   waitTimeout     |-> 0,
   waitI           |-> 0,
   healthyDb       |-> "unset",
   healthyWeb      |-> "unset",
   installerOk     |-> "unset",
   siteUrl         |-> NULL,
   baseUrl         |-> NULL,
   ccContext       |-> "",
   cacheFailed     |-> "unset",
   extI               |-> 0,
   themeSuccessCount  |-> 0,
   themeFailureCount  |-> 0,
   pluginSuccessCount |-> 0,
   pluginFailureCount |-> 0,
   item               |-> [name |-> "", payload |-> "none", extractRun |-> FALSE,
                           extractOk |-> FALSE, counted |-> "none"],
   extCmdFailed       |-> 0,
   procResult      |-> "unset",
   shell           |-> NoCommand,
   download        |-> NoDownload,
   attempt         |-> 0,
   httpPassed      |-> "unset",
   httpSlept       |-> 0,
   deploy          |-> NoDeploy,
   exitCode        |-> -1,
   events          |-> 0,
   probeFailed     |-> {},
   completed       |-> Unobserved]

Probes == {"compose", "dirs", "db", "config"}

BlankHost ==
  [compose |-> FALSE, composeImage |-> TemplateImage, dirs |-> FALSE,
   env |-> "absent", envVersion |-> <<>>, web |-> NotFound, db |-> NotFound,
   volumes |-> FALSE, appInstalled |-> FALSE]

\* the host as main found it when it entered the installed branch, kept
\* until performUpdate first writes to the host (taken = FALSE otherwise)
NoSnap == [taken |-> FALSE, host |-> BlankHost]

Init ==
  /\ config \in Configs
  /\ host \in InitHosts
  /\ pc = "main_start"
  /\ results = [p \in Probes |-> "pending"]
  /\ loc = InitLoc
  /\ calls = <<>>
  /\ snap = NoSnap

B(b) == IF b THEN "true" ELSE "false"

(***************************************************************************)
(* Command Runner (process-manager.ts is not part of the sources).         *)
(* A command ends in one of three ways: "ok" (exit 0), "returned" (a       *)
(* ProcessResult with success = false) or "thrown" (an Error is raised).   *)
(* With ignoreError a failure is always returned; without it the model     *)
(* admits both failure outcomes.                                           *)
(***************************************************************************)
IgnoreErrorOutcomes == {"ok", "returned"}
PropagateOutcomes == {"ok", "returned", "thrown"}

\* what a call can give back: a ProcessResult, or an Error raised to the
\* caller
Returns(code) == [raised |-> FALSE, success |-> code = 0, exitCode |-> code]
Raises(code) == [raised |-> TRUE, success |-> FALSE, exitCode |-> code]

\* fault variant: with ignoreError the failure is reported as a success
runShell_ignoredIsSuccess(code, ignoreError) ==
  IF code = 0 \/ ignoreError
  THEN {[raised |-> FALSE, success |-> TRUE, exitCode |-> code]}
  ELSE {Returns(code), Raises(code)}

\* ProcessManager.runShell: the possible outcomes of a command whose process
\* exits with code (test.ts:25-40 fix exit 0, and exit 1 with ignoreError)
runShell(code, ignoreError) ==
  IF code = 0 \/ ignoreError
  THEN {Returns(code)}
  ELSE {Returns(code), Raises(code)}

(***************************************************************************)
(* DockerManager: inspection                                               *)
(***************************************************************************)
NoInfo == [found |-> FALSE, name |-> "", image |-> <<>>, status |-> "", health |-> ""]

\* docker-manager.ts:15-32.  outcome is the result of the docker inspect
\* command; health "" is undefined (no health check)
getContainerInfo(name, c, outcome) ==
  IF outcome # "ok" \/ ~c.exists
  THEN NoInfo
  ELSE [found |-> TRUE, name |-> name, image |-> c.image,
        status |-> c.status, health |-> c.health]

\* docker-manager.ts:34-46, restricted to the two containers the deployer
\* looks at (mautic_cron is only logged)
listMauticContainers(h, outWeb, outDb) ==
  LET web == getContainerInfo("mautic_web", h.web, outWeb)
      db  == getContainerInfo("mautic_db", h.db, outDb)
  IN (IF web.found THEN <<web>> ELSE <<>>) \o (IF db.found THEN <<db>> ELSE <<>>)

\* docker-manager.ts:48-57
getCurrentMauticVersion(webInfo) ==
  IF ~webInfo.found THEN NULL
  ELSE LET imageTag == splitColonSecond(webInfo.image)
       IN IF truthy(imageTag) THEN imageTag ELSE NULL

(***************************************************************************)
(* MauticDeployer: installation state detection                            *)
(***************************************************************************)

\* fault variant: result.success is not looked at
checkDockerCompose_ignoresFailure(h, outcome) == h.compose

\* mautic-deployer.ts:35-44
checkDockerCompose(h, outcome) == outcome = "ok" /\ h.compose

\* mautic-deployer.ts:46-55
checkMauticDirectories(h, outcome) == outcome = "ok" /\ h.dirs

\* mautic-deployer.ts:57-68
checkDatabase(h, outWeb, outDb) ==
  LET containers == listMauticContainers(h, outWeb, outDb)
  IN \E i \in 1..Len(containers) :
       containers[i].name = "mautic_db" /\ containers[i].status = "running"

\* mautic-deployer.ts:70-79
checkConfigFiles(h, outcome) == outcome = "ok" /\ h.env # "absent"

\* mautic-deployer.ts:27: results.filter(Boolean).length
passedChecks(res) == Cardinality({p \in Probes : res[p] = "true"})


\* fault variant: the threshold is off by one
quorum_two(n) == n >= QuorumThreshold - 1

\* mautic-deployer.ts:32
quorum(n) == n >= QuorumThreshold


\* fault variant: the comparison is made against the version with its suffix
needsUpdate_normalised(currentVersion, targetVersion) ==
  IF ~truthy(currentVersion) THEN TRUE
  ELSE IF currentVersion # baseVersion(targetVersion) THEN TRUE
  ELSE FALSE

\* mautic-deployer.ts:81-97
needsUpdate(currentVersion, targetVersion) ==
  IF ~truthy(currentVersion) THEN TRUE
  ELSE IF currentVersion # targetVersion THEN TRUE
  ELSE FALSE

Call(name) == calls' = Append(calls, name)

Calls(names) == calls' = calls \o names

\* setup.ts:62 -> mautic-deployer.ts:19-24: the four probes are started
StartIsInstalled ==
  /\ pc = "main_start"
  /\ pc' = "probing"
  /\ Call("isInstalled")
  /\ UNCHANGED <<config, host, results, loc, snap>>

\* a probe's promise resolves; failed tells whether its remote command or
\* container inspection failed
ProbeDone(p, value, failed) ==
  /\ pc = "probing"
  /\ results[p] = "pending"
  /\ results' = [results EXCEPT ![p] = B(value)]
  /\ loc' = [loc EXCEPT !.probeFailed = IF failed THEN @ \cup {p} ELSE @,
                        !.completed = IF @ = Unobserved THEN @ ELSE Append(@, p)]
  /\ UNCHANGED <<config, host, pc, calls, snap>>

CheckDockerCompose ==
  \E o \in IgnoreErrorOutcomes :
    ProbeDone("compose", checkDockerCompose(host, o), o # "ok")

\* fault variant: the probe creates the directories it looks for
CheckMauticDirectories_creates ==
  /\ pc = "probing"
  /\ results["dirs"] = "pending"
  /\ results' = [results EXCEPT !["dirs"] = "true"]
  /\ host' = [host EXCEPT !.dirs = TRUE]
  /\ UNCHANGED <<config, pc, loc, calls, snap>>

CheckMauticDirectories ==
  \E o \in IgnoreErrorOutcomes :
    ProbeDone("dirs", checkMauticDirectories(host, o), o # "ok")

CheckDatabase ==
  \E ow \in IgnoreErrorOutcomes, od \in IgnoreErrorOutcomes :
    ProbeDone("db", checkDatabase(host, ow, od), od # "ok")

CheckConfigFiles ==
  \E o \in IgnoreErrorOutcomes :
    ProbeDone("config", checkConfigFiles(host, o), o # "ok")

\* fault variant: the probe that completes first decides (a race instead
\* of waiting for all four)
IsInstalledReturn_firstWins ==
  /\ pc = "probing"
  /\ \A p \in Probes : results[p] # "pending"
  /\ loc' = [loc EXCEPT !.isInstalled = results[loc.completed[1]]]
  /\ pc' = "classified"
  /\ UNCHANGED <<config, host, results, calls, snap>>

\* mautic-deployer.ts:26-32: Promise.all resolved, the count is taken
IsInstalledReturn ==
  /\ pc = "probing"
  /\ \A p \in Probes : results[p] # "pending"
  /\ loc' = [loc EXCEPT !.isInstalled = B(quorum(passedChecks(results)))]
  /\ pc' = "classified"
  /\ UNCHANGED <<config, host, results, calls, snap>>

(***************************************************************************)
(* main: selection of the procedure (setup.ts:64-110)                      *)
(***************************************************************************)

\* fault variant: the two branches are swapped
branchOnInstalled_swapped(isInstalled) ==
  IF isInstalled THEN "install_mkdir" ELSE "needs_update"

\* setup.ts:87/103: the branch on the classification
branchOnInstalled(isInstalled) ==
  IF isInstalled THEN "needs_update" ELSE "install_mkdir"


\* fault variant: an installed target is always updated
branchOnNeedsUpdate_always(needs) == "update_pull"

\* setup.ts:93/100: the branch on needsUpdate()
branchOnNeedsUpdate(needs) ==
  IF needs THEN "update_pull" ELSE "ssl"

MainBranch ==
  /\ pc = "classified"
  /\ pc' = branchOnInstalled(loc.isInstalled = "true")
  /\ results' = [p \in Probes |-> "pending"]
  /\ IF pc' = "install_mkdir"
     THEN /\ Call("performInstallation")
          /\ loc' = [loc EXCEPT !.proc = "install", !.probeFailed = {}]
          /\ snap' = snap
     ELSE /\ calls' = calls
          /\ loc' = [loc EXCEPT !.probeFailed = {}]
          /\ snap' = [taken |-> TRUE, host |-> host]
  /\ UNCHANGED <<config, host>>

\* setup.ts:91-102 with mautic-deployer.ts:81-97
NeedsUpdate ==
  /\ pc = "needs_update"
  /\ \E o \in IgnoreErrorOutcomes :
       LET cur   == getCurrentMauticVersion(getContainerInfo("mautic_web", host.web, o))
           needs == needsUpdate(cur, config.mauticVersion)
       IN /\ pc' = branchOnNeedsUpdate(needs)
          /\ loc' = [loc EXCEPT !.currentVersion = cur,
                                !.needsUpdate = B(needs),
                                !.proc = IF pc' = "update_pull" THEN "update" ELSE "noop"]
          /\ IF pc' = "update_pull"
             THEN Calls(<<"needsUpdate", "performUpdate">>)
             ELSE Call("needsUpdate")
  /\ UNCHANGED <<config, host, results, snap>>

\* an Error raised inside performInstallation / performUpdate: the catch
\* block logs and the procedure returns false
Abort(l) == [l EXCEPT !.procResult = "false"]

EnterWait(l, name, timeout) ==
  [l EXCEPT !.waitName = name, !.waitTimeout = timeout, !.waitI = 0, !.events = 0]

(***************************************************************************)
(* performUpdate (mautic-deployer.ts:99-143)                               *)
(***************************************************************************)
\* docker-manager.ts:59-70: the pull result decides, nothing is raised
pullImage(outcome) == outcome = "ok"


\* fault variant: the pull result is not checked
afterPull_unchecked(pullSuccess) == "update_compose"

\* mautic-deployer.ts:110-112: where performUpdate goes after the pull
afterPull(pullSuccess) == IF pullSuccess THEN "update_compose" ELSE "proc_return"

PullImage ==
  /\ pc = "update_pull"
  /\ \E o \in IgnoreErrorOutcomes :
       /\ pc' = afterPull(pullImage(o))
       /\ loc' = IF pc' = "proc_return"
                 THEN Abort([loc EXCEPT !.pullSuccess = B(pullImage(o))])
                 ELSE [loc EXCEPT !.pullSuccess = B(pullImage(o))]
  /\ Call("pullImage")
  /\ UNCHANGED <<config, host, results, snap>>

\* a token that holds no dash
NoDash(t) == t \notin {"-apache", "-beta"}

\* length of the match of /mautic\/mautic:[^-]+-apache/ that starts at
\* position i of s, 0 when there is none
RECURSIVE dashAfter(_, _)
dashAfter(s, j) ==
  IF j > Len(s) THEN 0
  ELSE IF NoDash(s[j]) THEN dashAfter(s, j + 1)
  ELSE j

matchLen(s, i) ==
  IF i + 3 > Len(s) THEN 0
  ELSE IF s[i] # "mautic/mautic" \/ s[i + 1] # ":" \/ ~NoDash(s[i + 2]) THEN 0
  ELSE LET d == dashAfter(s, i + 2)
       IN IF d # 0 /\ s[d] = "-apache" THEN d - i + 1 ELSE 0

\* composeContent.replace(/mautic\/mautic:[^-]+-apache/g, replacement)
RECURSIVE replaceFrom(_, _, _)
replaceFrom(s, i, replacement) ==
  IF i > Len(s) THEN <<>>
  ELSE LET m == matchLen(s, i)
       IN IF m > 0
          THEN replacement \o replaceFrom(s, i + m, replacement)
          ELSE <<s[i]>> \o replaceFrom(s, i + 1, replacement)

\* mautic-deployer.ts:149-156
updatedContent(composeContent, version) ==
  replaceFrom(composeContent, 1, imageName(version))

\* fault variant: a failed rewrite is logged and performUpdate goes on
afterRewrite_swallowed(rewritten) == "recreate_down"

\* mautic-deployer.ts:159-162 and 136-140: a failed rewrite is raised again
\* and ends performUpdate in its catch
afterRewrite(rewritten) == IF rewritten THEN "recreate_down" ELSE "proc_return"

\* mautic-deployer.ts:145-164: reading or writing the manifest may raise
UpdateDockerComposeVersion ==
  /\ pc = "update_compose"
  /\ Call("updateDockerComposeVersion")
  /\ \E ioOk \in BOOLEAN :
       /\ pc' = afterRewrite(ioOk /\ host.compose)
       /\ IF ioOk /\ host.compose
          THEN /\ host' = [host EXCEPT !.composeImage =
                                 updatedContent(host.composeImage, config.mauticVersion)]
               /\ loc' = [loc EXCEPT !.rewriteOk = "true"]
               /\ snap' = NoSnap
          ELSE /\ host' = host
               /\ loc' = IF pc' = "proc_return"
                         THEN Abort([loc EXCEPT !.rewriteOk = "false"])
                         ELSE [loc EXCEPT !.rewriteOk = "false"]
               /\ snap' = snap
  /\ UNCHANGED <<config, results>>

(***************************************************************************)
(* DockerManager.recreateContainers (docker-manager.ts:72-97)              *)
(***************************************************************************)
Running(c) == c.exists /\ c.status = "running"

\* docker-manager.ts:77 and 80: the flags of the two commands
downFlags == {}

rmFlags == {"-f"}

\* fault variant: down also removes the volumes
composeDown_volumes(h, flags) ==
  [h EXCEPT !.web = NotFound, !.db = NotFound, !.volumes = FALSE]

\* docker compose down: stops and removes the services' containers; their
\* volumes only with -v
composeDown(h, flags) ==
  [h EXCEPT !.web = NotFound, !.db = NotFound,
            !.volumes = IF "-v" \in flags THEN FALSE ELSE @]

\* docker compose rm -f: removes the stopped containers; their anonymous
\* volumes only with -v
composeRm(h, flags) ==
  [h EXCEPT !.web = IF h.web.exists /\ ~Running(h.web) THEN NotFound ELSE @,
            !.db  = IF h.db.exists /\ ~Running(h.db) THEN NotFound ELSE @,
            !.volumes = IF "-v" \in flags THEN FALSE ELSE @]

\* docker-manager.ts:77, 80, 83: the commands recreateContainers runs
recreateCommands ==
  <<"docker compose down", "docker compose rm -f", "docker compose up -d">>

ComposeDown ==
  /\ pc = "recreate_down"
  /\ Calls(<<"recreateContainers", recreateCommands[1]>>)
  /\ \E o \in IgnoreErrorOutcomes :
       host' = IF o = "ok" THEN composeDown(host, downFlags) ELSE host
  /\ pc' = "recreate_rm"
  /\ UNCHANGED <<config, results, loc, snap>>

ComposeRm ==
  /\ pc = "recreate_rm"
  /\ \E o \in IgnoreErrorOutcomes :
       host' = IF o = "ok" THEN composeRm(host, rmFlags) ELSE host
  /\ pc' = "recreate_up"
  /\ Call(recreateCommands[2])
  /\ UNCHANGED <<config, results, loc, snap>>

\* the image the manifest names for the web service, once resolved
webImage(h) == resolveImage(h.composeImage, h.envVersion)

\* docker compose up -d can succeed only on a manifest that is present and
\* names a complete image reference
CanStart(h) == h.compose /\ Len(webImage(h)) > 2

\* docker-manager.ts:85-92: the result of up -d is the result of the call
recreateResult(outcome) == outcome = "ok"


\* fault variant: performInstallation does not check startSuccess
afterRecreate_uncheckedInstall(proc, recreateSuccess) ==
  IF recreateSuccess \/ proc = "install" THEN "wait" ELSE "proc_return"

\* mautic-deployer.ts:120-122 and 201-219: the caller raises on false
afterRecreate(proc, recreateSuccess) ==
  IF recreateSuccess THEN "wait" ELSE "proc_return"

ComposeUp ==
  /\ pc = "recreate_up"
  /\ \E o \in IgnoreErrorOutcomes, hw \in {"", "starting"}, partial \in BOOLEAN :
       /\ o = "ok" => CanStart(host)
       /\ host' = IF o = "ok"
                  THEN [host EXCEPT !.web = Container(webImage(host), "running", hw),
                                    !.db  = Container(DbImage, "running", "starting"),
                                    !.volumes = TRUE]
                  ELSE IF partial /\ CanStart(host)
                  THEN [host EXCEPT !.db = Container(DbImage, "running", "starting"),
                                    !.volumes = TRUE]
                  ELSE host
       /\ pc' = afterRecreate(loc.proc, recreateResult(o))
       /\ loc' = LET l == [loc EXCEPT !.recreateSuccess = B(recreateResult(o))]
                 IN IF pc' = "proc_return" THEN Abort(l)
                    ELSE IF loc.proc = "install"
                    THEN EnterWait(l, "mautic_db", DbInstallTimeout)
                    ELSE EnterWait(l, "mautic_web", DefaultTimeout)
       /\ IF pc' = "wait"
          THEN Calls(<<recreateCommands[3],
                       IF loc.proc = "install" THEN "waitForHealthy:mautic_db"
                       ELSE "waitForHealthy:mautic_web">>)
          ELSE Call(recreateCommands[3])
  /\ UNCHANGED <<config, results, snap>>

(***************************************************************************)
(* DockerManager.waitForHealthy (docker-manager.ts:99-142)                 *)
(***************************************************************************)
\* fault variant: a container without a health check is never healthy
isHealthy_requiresHealth(info) ==
  info.found /\ info.status = "running" /\ info.health = "healthy"

\* docker-manager.ts:105-110
isHealthy(info) ==
  info.found /\ info.status = "running" /\ (info.health = "" \/ info.health = "healthy")

HostContainer(h, name) == IF name = "mautic_web" THEN h.web ELSE h.db

\* mautic-deployer.ts:241-247: performInstallation after its two waits
afterInstallWaits(healthyDb, healthyWeb) == "install_help"

\* fault variant: only the web container's result is checked
afterUpdateWaits_webOnly(healthyWeb, healthyDb) ==
  IF ~healthyWeb THEN "proc_return" ELSE "clear_cache"

\* mautic-deployer.ts:128-130: performUpdate after its two waits
afterUpdateWaits(healthyWeb, healthyDb) ==
  IF ~healthyWeb \/ ~healthyDb THEN "proc_return" ELSE "clear_cache"

\* waitForHealthy returned r (its locals are gone): the caller continues
LeaveWait(l) ==
  [l EXCEPT !.waitName = "", !.waitTimeout = 0, !.waitI = 0, !.events = 0]

WaitReturn(r) ==
  IF loc.proc = "install" /\ loc.waitName = "mautic_db"
  THEN /\ loc' = EnterWait([loc EXCEPT !.healthyDb = B(r)], "mautic_web", WebInstallTimeout)
       /\ pc' = "wait"
       /\ Call("waitForHealthy:mautic_web")
  ELSE IF loc.proc = "install"
  THEN /\ loc' = LeaveWait([loc EXCEPT !.healthyWeb = B(r)])
       /\ pc' = afterInstallWaits(loc.healthyDb = "true", r)
       /\ calls' = calls
  ELSE IF loc.waitName = "mautic_web"
  THEN /\ loc' = EnterWait([loc EXCEPT !.healthyWeb = B(r)], "mautic_db", DefaultTimeout)
       /\ pc' = "wait"
       /\ Call("waitForHealthy:mautic_db")
  ELSE /\ pc' = afterUpdateWaits(loc.healthyWeb = "true", r)
       /\ loc' = LET l == LeaveWait([loc EXCEPT !.healthyDb = B(r),
                                                !.ccContext = "after update"])
                 IN IF pc' = "proc_return" THEN Abort(l) ELSE l
       /\ calls' = calls


\* fault variant: the loop makes one poll too many
loopContinues_inclusive(i, timeoutSeconds) == i <= timeoutSeconds

\* docker-manager.ts:102: the loop condition i < timeoutSeconds
loopContinues(i, timeoutSeconds) == i < timeoutSeconds

\* one iteration of the polling loop: inspect, return true or sleep 15 s;
\* an inspection that fails is one of the runtime's events
WaitPoll ==
  /\ pc = "wait"
  /\ loopContinues(loc.waitI, loc.waitTimeout)
  /\ \E o \in IgnoreErrorOutcomes :
       LET info == getContainerInfo(loc.waitName, HostContainer(host, loc.waitName), o)
       IN /\ o # "ok" => loc.events < MaxEvents
          /\ IF isHealthy(info)
             THEN WaitReturn(TRUE)
             ELSE /\ loc' = [loc EXCEPT !.waitI = @ + PollInterval,
                                        !.events = IF o # "ok" THEN @ + 1 ELSE @]
                  /\ UNCHANGED <<pc, calls>>
  /\ UNCHANGED <<config, host, results, snap>>

\* the loop condition failed: Timeout, return false
WaitTimeout ==
  /\ pc = "wait"
  /\ ~loopContinues(loc.waitI, loc.waitTimeout)
  /\ WaitReturn(FALSE)
  /\ UNCHANGED <<config, host, results, snap>>

\* the container runtime changes the polled container while main sleeps
\* in a wait: a health verdict arrives, an unhealthy container recovers,
\* the container crashes
Evolutions(c) ==
  IF ~Running(c) THEN {}
  ELSE {[c EXCEPT !.status = "exited"]}
       \cup (IF c.health = "starting"
             THEN {[c EXCEPT !.health = "healthy"], [c EXCEPT !.health = "unhealthy"]}
             ELSE {})
       \cup (IF c.health = "unhealthy" THEN {[c EXCEPT !.health = "healthy"]} ELSE {})

ContainerEvolves ==
  /\ pc = "wait"
  /\ loc.events < MaxEvents
  /\ \E c \in Evolutions(HostContainer(host, loc.waitName)) :
       host' = IF loc.waitName = "mautic_web"
               THEN [host EXCEPT !.web = c]
               ELSE [host EXCEPT !.db = c]
  /\ loc' = [loc EXCEPT !.events = @ + 1]
  /\ UNCHANGED <<config, pc, results, calls, snap>>

(***************************************************************************)
(* performInstallation (mautic-deployer.ts:166-267)                        *)
(***************************************************************************)
\* mautic-deployer.ts:171: mkdir -p mautic_data mysql_data logs
MkdirDataDirs ==
  /\ pc = "install_mkdir"
  /\ Call("mkdir")
  /\ \E o \in PropagateOutcomes :
       /\ host' = IF o = "ok" THEN [host EXCEPT !.dirs = TRUE] ELSE host
       /\ pc' = IF o = "thrown" THEN "proc_return" ELSE "install_chmod_dirs"
       /\ loc' = IF o = "thrown" THEN Abort(loc) ELSE loc
  /\ UNCHANGED <<config, results, snap>>

\* mautic-deployer.ts:172: chmod 755 mautic_data mysql_data logs
ChmodDataDirs ==
  /\ pc = "install_chmod_dirs"
  /\ \E o \in PropagateOutcomes :
       /\ o = "ok" => host.dirs
       /\ pc' = IF o = "thrown" THEN "proc_return" ELSE "install_write_env"
       /\ loc' = IF o = "thrown" THEN Abort(loc) ELSE loc
  /\ UNCHANGED <<config, host, results, calls, snap>>

\* the modes a file created without a mode option can get: 0666 masked by
\* the umask of the process (022 or 077)
NewFileModes == {"0644", "0600"}

\* mautic-deployer.ts:308: Deno.writeTextFile('.mautic_env', envContent);
\* a new file gets the default mode, an existing file keeps its mode
WriteEnvFile ==
  /\ pc = "install_write_env"
  /\ Call("writeEnv")
  /\ \E ok \in BOOLEAN, mode \in NewFileModes :
       IF ok
       THEN /\ host' = [host EXCEPT !.env = IF @ = "absent" THEN mode ELSE @,
                                    !.envVersion = baseVersion(config.mauticVersion)]
            /\ pc' = "install_chmod_env"
            /\ loc' = loc
       ELSE /\ host' = host
            /\ pc' = "proc_return"
            /\ loc' = Abort(loc)
  /\ UNCHANGED <<config, results, snap>>

\* mautic-deployer.ts:309: Deno.chmod('.mautic_env', 0o600); lines 177-193
\* then only list the file for the log
ChmodEnvFile ==
  /\ pc = "install_chmod_env"
  /\ Call("chmodEnv")
  /\ \E ok \in BOOLEAN :
       IF ok
       THEN /\ host' = [host EXCEPT !.env = "0600"]
            /\ pc' = "install_compose"
            /\ loc' = loc
       ELSE /\ host' = host
            /\ pc' = "proc_return"
            /\ loc' = Abort(loc)
  /\ UNCHANGED <<config, results, snap>>

\* fault variant: a missing manifest is only logged
afterCreateDockerCompose_logged(templateExists) == "recreate_down"

\* mautic-deployer.ts:322-331 and 262-266: a missing manifest raises, which
\* ends performInstallation in its catch
afterCreateDockerCompose(templateExists) ==
  IF templateExists THEN "recreate_down" ELSE "proc_return"

\* mautic-deployer.ts:314-332: the manifest must already be there
CreateDockerCompose ==
  /\ pc = "install_compose"
  /\ Call("createDockerCompose")
  /\ \E o \in IgnoreErrorOutcomes :
       /\ pc' = afterCreateDockerCompose(checkDockerCompose(host, o))
       /\ loc' = IF pc' = "proc_return" THEN Abort(loc) ELSE loc
  /\ UNCHANGED <<config, host, results, snap>>

\* mautic-deployer.ts:923-951: the database test is only logged; a raised
\* mautic:install --help aborts
InstallerHelp ==
  /\ pc = "install_help"
  /\ Call("mautic:install --help")
  /\ \E o \in PropagateOutcomes :
       /\ o = "ok" => Running(host.web)
       /\ pc' = IF o = "thrown" THEN "proc_return" ELSE "install_run"
       /\ loc' = IF o = "thrown" THEN Abort(loc) ELSE loc
  /\ UNCHANGED <<config, host, results, snap>>

\* mautic-deployer.ts:980-987: a result that is not a success raises
installerSucceeded(outcome) == outcome = "ok"


\* fault variant: the installer result is only logged
afterInstaller_unchecked(success) == "clear_cache"

afterInstaller(success) == IF success THEN "clear_cache" ELSE "proc_return"

\* fault variant: the scheme does not depend on the domain
siteUrl_plainHttp(cfg) ==
  IF cfg.domainName # ""
  THEN <<"http://", cfg.domainName>>
  ELSE <<"http://", cfg.ipAddress, ":", cfg.port>>

\* mautic-deployer.ts:956-958
siteUrl(cfg) ==
  IF cfg.domainName # ""
  THEN <<"https://", cfg.domainName>>
  ELSE <<"http://", cfg.ipAddress, ":", cfg.port>>

\* mautic-deployer.ts:953-993: the installer command itself, given siteUrl
\* as its argument (line 972)
RunMauticInstallation ==
  /\ pc = "install_run"
  /\ Call("mautic:install")
  /\ \E o \in PropagateOutcomes :
       /\ o = "ok" => (Running(host.web) /\ Running(host.db))
       /\ host' = IF o = "ok" THEN [host EXCEPT !.appInstalled = TRUE] ELSE host
       /\ pc' = afterInstaller(installerSucceeded(o))
       /\ loc' = LET l == [loc EXCEPT !.installerOk = B(o = "ok"),
                                      !.siteUrl = siteUrl(config),
                                      !.ccContext = "after installation"]
                 IN IF pc' = "proc_return" THEN Abort(l) ELSE l
  /\ UNCHANGED <<config, results, snap>>


\* fault variant: the extension block is skipped
afterClearCache_noExtensions(proc, context, extensions) == "proc_return"

\* mautic-deployer.ts:132-136 and 249-260: what follows a clearCache
afterClearCache(proc, context, extensions) ==
  IF proc = "install" /\ context = "after installation" /\ extensions
  THEN "install_ext"
  ELSE "proc_return"

\* fault variant: a raised error leaves clearCache
clearCacheRaises_uncaught(outcome) == outcome = "thrown"

\* mautic-deployer.ts:1011-1014: the catch block logs and raises nothing
clearCacheRaises(outcome) == FALSE

\* mautic-deployer.ts:999-1015; cacheFailed remembers whether a clearCache
\* of this run failed
ClearCache ==
  /\ pc = "clear_cache"
  /\ Call("clearCache")
  /\ \E o \in PropagateOutcomes :
       /\ o = "ok" => Running(host.web)
       /\ pc' = IF clearCacheRaises(o) THEN "proc_return"
                ELSE afterClearCache(loc.proc, loc.ccContext, hasExtensions(config))
       /\ loc' = LET l == [loc EXCEPT !.cacheFailed =
                                        IF o # "ok" THEN "true"
                                        ELSE IF @ = "unset" THEN "false" ELSE @]
                 IN IF clearCacheRaises(o) THEN Abort(l)
                    ELSE IF pc' = "proc_return" THEN [l EXCEPT !.procResult = "true"]
                    ELSE l
  /\ UNCHANGED <<config, host, results, snap>>

\* mautic-deployer.ts:562 and 584: where installThemesAndPluginsRuntime
\* goes next, the themes being done or not
extLoop(cfg, themesDone) ==
  IF ~themesDone /\ cfg.mauticThemes # <<>> THEN "ext_themes"
  ELSE IF cfg.mauticPlugins # <<>> THEN "ext_plugins"
  ELSE "ext_done"

\* mautic-deployer.ts:252-257 -> 334-346 (shouldUseCustomImageApproach
\* answers false) -> 558-560
InstallThemesAndPlugins ==
  /\ pc = "install_ext"
  /\ Call("installThemesAndPlugins")
  /\ pc' = extLoop(config, FALSE)
  /\ loc' = [loc EXCEPT !.extI = 1, !.ccContext = "after installing themes/plugins"]
  /\ UNCHANGED <<config, host, results, snap>>

\* fault variant: an item's error leaves the loop
itemErrorPropagates_uncaught(threw) == threw

\* mautic-deployer.ts:572-577 and 594-599: the catch inside the loop counts
\* the failure and continues
itemErrorPropagates(threw) == FALSE

\* fault variant: the loop steps over the item that follows
nextIndex_skip(i) == i + 2

\* mautic-deployer.ts:567 and 589: for (const item of items)
nextIndex(i) == i + 1

\* what one installTheme / installPlugin call did.  payload is what the
\* download left ("none" when it failed), extractRun whether an unzip
\* command was run on it, threw whether the call raised
ItemResult(name, payload, extractRun, extractOk, threw) ==
  [name |-> name, payload |-> payload, extractRun |-> extractRun,
   extractOk |-> extractOk, threw |-> threw]

\* mautic-deployer.ts:608-722.  The download and the extraction are one
\* shell command 'curl ... && unzip ...' run with ignoreError (lines
\* 686-688) whose result is not looked at; nothing checks the payload
installTheme(name, curlOk, valid) ==
  ItemResult(name,
             IF ~curlOk THEN "none" ELSE IF valid THEN "valid" ELSE "invalid",
             curlOk, curlOk /\ valid, FALSE)

\* mautic-deployer.ts:724-914: download (raise on failure, 797-806),
\* 'file plugin.zip' (808-819: checked only when the command itself
\* succeeded), extraction (821-837, raise on failure)
installPlugin(name, download, valid, validate, extract) ==
  LET payload == IF valid THEN "valid" ELSE "invalid"
  IN IF download # "ok"
     THEN ItemResult(name, "none", FALSE, FALSE, TRUE)
     ELSE IF validate = "ok" /\ ~valid
     THEN ItemResult(name, payload, FALSE, FALSE, TRUE)
     ELSE ItemResult(name, payload, TRUE, extract = "ok", extract # "ok")

\* the item's record as the loop leaves it: counted is the counter that
\* was incremented
Counted(r) ==
  [name |-> r.name, payload |-> r.payload, extractRun |-> r.extractRun,
   extractOk |-> r.extractOk,
   counted |-> IF r.threw THEN "failure" ELSE "success"]

\* mautic-deployer.ts:567-578: one iteration of the theme loop; the counters
\* keep their last values after the function has returned
InstallTheme ==
  /\ pc = "ext_themes"
  /\ Call(config.mauticThemes[loc.extI])
  /\ \E curlOk \in BOOLEAN, valid \in BOOLEAN :
       /\ curlOk => Running(host.web)
       /\ LET r == installTheme(config.mauticThemes[loc.extI], curlOk, valid)
              last == nextIndex(loc.extI) > Len(config.mauticThemes)
              l == [loc EXCEPT !.extI = IF last THEN 1 ELSE nextIndex(@),
                               !.themeSuccessCount = IF r.threw THEN @ ELSE @ + 1,
                               !.themeFailureCount = IF r.threw THEN @ + 1 ELSE @,
                               !.item = Counted(r),
                               !.extCmdFailed = IF r.extractOk THEN @ ELSE @ + 1]
          IN IF itemErrorPropagates(r.threw)
             THEN pc' = "proc_return" /\ loc' = Abort(l)
             ELSE /\ pc' = IF last THEN extLoop(config, TRUE) ELSE "ext_themes"
                  /\ loc' = l
  /\ UNCHANGED <<config, host, results, snap>>

\* mautic-deployer.ts:589-600: one iteration of the plugin loop
InstallPlugin ==
  /\ pc = "ext_plugins"
  /\ Call(config.mauticPlugins[loc.extI])
  /\ \E download \in IgnoreErrorOutcomes, valid \in BOOLEAN,
        validate \in IgnoreErrorOutcomes, extract \in IgnoreErrorOutcomes :
       /\ download = "ok" => Running(host.web)
       /\ extract = "ok" => valid
       /\ LET r == installPlugin(config.mauticPlugins[loc.extI],
                                 download, valid, validate, extract)
              last == nextIndex(loc.extI) > Len(config.mauticPlugins)
              l == [loc EXCEPT !.extI = IF last THEN 1 ELSE nextIndex(@),
                               !.pluginSuccessCount = IF r.threw THEN @ ELSE @ + 1,
                               !.pluginFailureCount = IF r.threw THEN @ + 1 ELSE @,
                               !.item = Counted(r),
                               !.extCmdFailed = IF r.extractOk THEN @ ELSE @ + 1]
          IN IF itemErrorPropagates(r.threw)
             THEN pc' = "proc_return" /\ loc' = Abort(l)
             ELSE /\ pc' = IF last THEN "ext_done" ELSE "ext_plugins"
                  /\ loc' = l
  /\ UNCHANGED <<config, host, results, snap>>

\* mautic-deployer.ts:604-605: installThemesAndPluginsRuntime returns; the
\* record of its last item goes with it
ExtensionsInstalled ==
  /\ pc = "ext_done"
  /\ pc' = "clear_cache"
  /\ loc' = [loc EXCEPT !.item = InitLoc.item]
  /\ UNCHANGED <<config, host, results, calls, snap>>

(***************************************************************************)
(* main after the procedure (setup.ts:97-177)                              *)
(***************************************************************************)
\* fault variant: main does not look at the procedure's result
afterProcedure_unchecked(result) == "ssl"

\* setup.ts:97-99, 107-109: a false result is raised
afterProcedure(result) == IF result THEN "ssl" ELSE "catch"

ProcedureReturned ==
  /\ pc = "proc_return"
  /\ pc' = afterProcedure(loc.procResult = "true")
  /\ UNCHANGED <<config, host, results, loc, calls, snap>>

\* fault variant: TLS is provisioned whether a domain is configured or not
sslWanted_always(cfg) == TRUE

\* setup.ts:113: if (config.domainName)
sslWanted(cfg) == cfg.domainName # ""

\* setup.ts:113-115
SetupSSL ==
  /\ pc = "ssl"
  /\ IF sslWanted(config)
     THEN /\ Call("setupSSL")
          /\ \E thrown \in BOOLEAN : pc' = IF thrown THEN "catch" ELSE "final_validation"
     ELSE /\ calls' = calls
          /\ pc' = "final_validation"
  /\ UNCHANGED <<config, host, results, loc, snap>>

\* setup.ts:127-129: the URL main tests and reports as mautic_url
baseUrl(cfg) ==
  IF cfg.domainName # ""
  THEN <<"http://", cfg.domainName>>
  ELSE <<"http://", cfg.ipAddress, ":", cfg.port>>

\* setup.ts:117-132
FinalValidation ==
  /\ pc = "final_validation"
  /\ Call("listMauticContainers")
  /\ pc' = "http_test"
  /\ loc' = [loc EXCEPT !.attempt = 1, !.baseUrl = baseUrl(config)]
  /\ UNCHANGED <<config, host, results, snap>>

MaxAttempts == 3

\* setup.ts:147: the pause between two attempts, in seconds
RetryPause == 15

\* fault variant: a check that never passed ends the run in the error handler
afterHttpTest_fatal(passed) == IF passed THEN "outputs" ELSE "catch"

\* setup.ts:140-145: break on success, a warning after the last attempt
afterHttpTest(passed) == "outputs"

\* setup.ts:134-149: one iteration of the loop; curlResult.success and the
\* output '200' make the attempt pass
HttpAttempt ==
  /\ pc = "http_test"
  /\ \E passed \in BOOLEAN :
       IF passed \/ loc.attempt = MaxAttempts
       THEN /\ Call("curl")
            /\ pc' = afterHttpTest(passed)
            /\ loc' = [loc EXCEPT !.httpPassed = B(passed)]
       ELSE /\ Calls(<<"curl", "sleep">>)
            /\ pc' = "http_test"
            /\ loc' = [loc EXCEPT !.attempt = @ + 1, !.httpPassed = "false",
                                  !.httpSlept = @ + RetryPause]
  /\ UNCHANGED <<config, host, results, snap>>

\* setup.ts:151: the line main logs when it has come through
SuccessLine == "Mautic setup completed successfully"

\* setup.ts:151-171: the success line is logged, then the outputs are
\* written; appending to GITHUB_OUTPUT may raise, console.log not
WriteOutputs ==
  /\ pc = "outputs"
  /\ \E ok \in BOOLEAN :
       IF ok
       THEN /\ Calls(<<SuccessLine, "deployment_status=success">>)
            /\ pc' = "exited"
            /\ loc' = [loc EXCEPT !.exitCode = 0]
       ELSE /\ Call(SuccessLine)
            /\ pc' = "catch"
            /\ loc' = loc
  /\ UNCHANGED <<config, host, results, snap>>

\* setup.ts:173-177
MainCatch ==
  /\ pc = "catch"
  /\ pc' = "exited"
  /\ loc' = [loc EXCEPT !.exitCode = 1]
  /\ UNCHANGED <<config, host, results, calls, snap>>

Next ==
  \/ StartIsInstalled
  \/ CheckDockerCompose
  \/ CheckMauticDirectories
  \/ CheckDatabase
  \/ CheckConfigFiles
  \/ IsInstalledReturn
  \/ MainBranch
  \/ NeedsUpdate
  \/ PullImage
  \/ UpdateDockerComposeVersion
  \/ ComposeDown
  \/ ComposeRm
  \/ ComposeUp
  \/ WaitPoll
  \/ WaitTimeout
  \/ ContainerEvolves
  \/ MkdirDataDirs
  \/ ChmodDataDirs
  \/ WriteEnvFile
  \/ ChmodEnvFile
  \/ CreateDockerCompose
  \/ InstallerHelp
  \/ RunMauticInstallation
  \/ ClearCache
  \/ InstallThemesAndPlugins
  \/ InstallTheme
  \/ InstallPlugin
  \/ ExtensionsInstalled
  \/ ProcedureReturned
  \/ SetupSSL
  \/ FinalValidation
  \/ HttpAttempt
  \/ WriteOutputs
  \/ MainCatch

Spec == Init /\ [][Next]_vars

(***************************************************************************)
(* DockerManager.waitForHealthy as a function of its arguments: one call   *)
(* waitForHealthy('mautic_web', T) for every T up to MaxTimeout, made      *)
(* where performInstallation makes its second wait                         *)
(***************************************************************************)
MaxTimeout == 45

WaitContainers ==
  {NotFound}
    \cup {Container(imageName(<<"5.2.1">>), "running", h) :
            h \in {"", "starting", "healthy", "unhealthy"}}
    \cup {Container(imageName(<<"5.2.1">>), "exited", h) : h \in {"", "unhealthy"}}

InitWait ==
  /\ config = [mauticVersion |-> <<"5.2.1">>, domainName |-> "",
               ipAddress |-> "203.0.113.5", port |-> "8001",
               mauticThemes |-> <<>>, mauticPlugins |-> <<>>,
               githubToken |-> ""]
  /\ \E c \in WaitContainers :
       host = [BlankHost EXCEPT !.compose = TRUE, !.dirs = TRUE, !.env = "0600",
                                !.envVersion = baseVersion(<<"5.2.1">>),
                                !.web = c,
                                !.db = Container(DbImage, "running", "healthy"),
                                !.volumes = TRUE]
  /\ \E T \in 0..MaxTimeout :
       loc = EnterWait([InitLoc EXCEPT !.isInstalled = "false", !.proc = "install",
                                       !.recreateSuccess = "true", !.healthyDb = "true"],
                       "mautic_web", T)
  /\ pc = "wait"
  /\ results = [p \in Probes |-> "false"]
  /\ calls = <<"waitForHealthy:mautic_web">>
  /\ snap = NoSnap

NextWait ==
  \/ WaitPoll
  \/ WaitTimeout
  \/ ContainerEvolves

SpecWait == InitWait /\ [][NextWait]_vars

(***************************************************************************)
(* DockerManager.getCurrentMauticVersion as a function of the image        *)
(* reference of mautic_web: main stands before needsUpdate() on an         *)
(* installed host whose web container runs any image reference of up to    *)
(* MaxRefLen tokens                                                        *)
(***************************************************************************)
MaxRefLen == 4

RefTokens == {"registry.example.com", ":", "5000/mautic/mautic", "5.2.1", "-apache"}

ImageRefs == UNION {[1..n -> RefTokens] : n \in 1..MaxRefLen}

InstalledHost(web) ==
  [BlankHost EXCEPT !.compose = TRUE, !.dirs = TRUE, !.env = "0600",
                    !.envVersion = baseVersion(<<"5.2.1">>),
                    !.web = web,
                    !.db = Container(DbImage, "running", "healthy"),
                    !.volumes = TRUE, !.appInstalled = TRUE]

InitVersion ==
  /\ config = [mauticVersion |-> <<"5.2.1", "-apache">>, domainName |-> "",
               ipAddress |-> "203.0.113.5", port |-> "8001",
               mauticThemes |-> <<>>, mauticPlugins |-> <<>>,
               githubToken |-> ""]
  /\ \E web \in {NotFound} \cup {Container(r, "running", "healthy") : r \in ImageRefs} :
       /\ host = InstalledHost(web)
       /\ snap = [taken |-> TRUE, host |-> InstalledHost(web)]
  /\ pc = "needs_update"
  /\ results = [p \in Probes |-> "pending"]
  /\ loc = [InitLoc EXCEPT !.isInstalled = "true"]
  /\ calls = <<"isInstalled">>

NextVersion == NeedsUpdate

SpecVersion == InitVersion /\ [][NextVersion]_vars

(***************************************************************************)
(* A second run of main: the detection and selection steps of a run that   *)
(* starts, with the same configuration, on the host a successful install   *)
(* or upgrade to config.mauticVersion has left                             *)
(***************************************************************************)
\* the hosts a successful run leaves: performInstallation writes .mautic_env
\* for the template manifest (lines 304-309), performUpdate rewrites the
\* image line of a versioned manifest and leaves .mautic_env as it was
\* (lines 149-156); both containers run
SuccessHosts(cfg) ==
  {[compose      |-> TRUE,
    composeImage |-> m[1],
    dirs         |-> TRUE,
    env          |-> "0600",
    envVersion   |-> m[2],
    web          |-> Container(imageName(cfg.mauticVersion), "running", hw),
    db           |-> Container(DbImage, "running", "healthy"),
    volumes      |-> TRUE,
    appInstalled |-> TRUE] :
     m \in {<<TemplateImage, baseVersion(cfg.mauticVersion)>>,
            <<imageName(cfg.mauticVersion), baseVersion(<<"5.2.0">>)>>},
     hw \in {"", "healthy"}}

InitRerun ==
  /\ config \in {c \in Configs : c.mauticThemes = <<>> /\ c.mauticPlugins = <<>>}
  /\ host \in SuccessHosts(config)
  /\ pc = "main_start"
  /\ results = [p \in Probes |-> "pending"]
  /\ loc = InitLoc
  /\ calls = <<>>
  /\ snap = NoSnap

NextRerun ==
  \/ StartIsInstalled
  \/ CheckDockerCompose
  \/ CheckMauticDirectories
  \/ CheckDatabase
  \/ CheckConfigFiles
  \/ IsInstalledReturn
  \/ MainBranch
  \/ NeedsUpdate

SpecRerun == InitRerun /\ [][NextRerun]_vars

(***************************************************************************)
(* One command run through ProcessManager.runShell, for every exit code    *)
(* up to MaxExitCode, with and without ignoreError                         *)
(***************************************************************************)
MaxExitCode == 40

InitShell ==
  /\ config = [mauticVersion |-> <<"5.2.1">>, domainName |-> "",
               ipAddress |-> "203.0.113.5", port |-> "8001",
               mauticThemes |-> <<>>, mauticPlugins |-> <<>>,
               githubToken |-> ""]
  /\ host = BlankHost
  /\ pc = "shell_start"
  /\ results = [p \in Probes |-> "pending"]
  /\ \E code \in 0..MaxExitCode, ignoreError \in BOOLEAN :
       loc = [InitLoc EXCEPT !.shell.exitCode = code,
                             !.shell.ignoreError = ignoreError]
  /\ calls = <<>>
  /\ snap = NoSnap

RunShell ==
  /\ pc = "shell_start"
  /\ Call("runShell")
  /\ \E r \in runShell(loc.shell.exitCode, loc.shell.ignoreError) :
       loc' = [loc EXCEPT !.shell.result = r]
  /\ pc' = "shell_done"
  /\ UNCHANGED <<config, host, results, snap>>

NextShell == RunShell

SpecShell == InitShell /\ [][NextShell]_vars

(***************************************************************************)
(* The end of main in a run that found the host as a successful run left   *)
(* it and took the no-op branch: final validation, the HTTP connectivity   *)
(* check and the outputs.  Every step of it ends, so the steps are taken   *)
(* under weak fairness                                                     *)
(***************************************************************************)
InitHttp ==
  /\ config \in {c \in Configs : c.mauticVersion = <<"5.2.1", "-apache">>}
  /\ host \in SuccessHosts(config)
  /\ pc = "final_validation"
  /\ results = [p \in Probes |-> "pending"]
  /\ loc = [InitLoc EXCEPT !.isInstalled = "true", !.needsUpdate = "false",
                           !.currentVersion = config.mauticVersion,
                           !.proc = "noop"]
  /\ calls = <<"isInstalled", "needsUpdate">>
               \o (IF sslWanted(config) THEN <<"setupSSL">> ELSE <<>>)
  /\ snap = [taken |-> TRUE, host |-> host]

NextHttp ==
  \/ FinalValidation
  \/ HttpAttempt
  \/ WriteOutputs
  \/ MainCatch

SpecHttp == InitHttp /\ [][NextHttp]_vars /\ WF_vars(NextHttp)

(***************************************************************************)
(* deploy.sh from the start of the setup binary on (deploy.sh:298-575),    *)
(* running beside the end of main: either main's final steps after the     *)
(* no-op branch, or its error handler after a failed pull                  *)
(***************************************************************************)
\* deploy.sh:319
DeployTimeout == 600

\* deploy.sh:403-404
DeployPoll == 30

\* deploy.sh:329
QuickCheckAfter == 30

\* deploy.sh:383
ProgressEvery == 60

\* exit status of a process ended by SIGTERM (deploy.sh:418)
Killed == 143

SetupRunning == pc # "exited"

\* the setup log holds the line that the success patterns of deploy.sh match
\* (deploy.sh:330, 354, 393, 425)
SuccessLogged == \E i \in 1..Len(calls) : calls[i] = SuccessLine

\* deploy.sh:326: what the remote 'pgrep ... | head -1 || echo NOT_RUNNING'
\* gives.  While setup runs it is its PID; afterwards it is the empty
\* string, because the status of the pipeline is that of head, or
\* NOT_RUNNING when the remote shell fails pipelines on any command
RunningAnswers ==
  {"SSH_FAILED"} \cup (IF SetupRunning THEN {"PID"} ELSE {"", "NOT_RUNNING"})

\* an installed host that runs 5.2.0
InitDeployHost ==
  [InstalledHost(Container(imageName(<<"5.2.0">>), "running", "healthy"))
     EXCEPT !.envVersion = baseVersion(<<"5.2.0">>)]

InitDeploy ==
  /\ config = [mauticVersion |-> <<"5.2.1", "-apache">>, domainName |-> "",
               ipAddress |-> "203.0.113.5", port |-> "8001",
               mauticThemes |-> <<>>, mauticPlugins |-> <<>>,
               githubToken |-> ""]
  /\ results = [p \in Probes |-> "pending"]
  /\ \/ /\ host \in SuccessHosts(config)
        /\ pc = "final_validation"
        /\ loc = [InitLoc EXCEPT !.isInstalled = "true", !.needsUpdate = "false",
                                 !.currentVersion = config.mauticVersion,
                                 !.proc = "noop",
                                 !.deploy.phase = "monitor"]
        /\ calls = <<"isInstalled", "needsUpdate">>
        /\ snap = [taken |-> TRUE, host |-> host]
     \/ /\ host = InitDeployHost
        /\ pc = "catch"
        /\ loc = [InitLoc EXCEPT !.isInstalled = "true", !.needsUpdate = "true",
                                 !.currentVersion = baseVersion(<<"5.2.0">>),
                                 !.proc = "update", !.pullSuccess = "false",
                                 !.procResult = "false",
                                 !.deploy.phase = "monitor"]
        /\ calls = <<"isInstalled", "needsUpdate", "performUpdate", "pullImage">>
        /\ snap = [taken |-> TRUE, host |-> host]

\* deploy.sh:315: the completion monitor.  Its loop ends when pgrep finds no
\* process whose command line holds ./setup; the second pgrep then finds
\* none either, wait is not reached, and the marker says 0 whatever status
\* setup ended with
CompletionMonitor ==
  /\ loc.deploy.phase # "none"
  /\ ~SetupRunning
  /\ loc.deploy.marker = "none"
  /\ loc' = [loc EXCEPT !.deploy.marker = "0"]
  /\ UNCHANGED <<config, host, pc, results, calls, snap>>

\* deploy.sh:324-405: one iteration of the monitoring loop.  Each remote
\* grep gives its fallback when the connection fails; the progress report
\* (lines 385-389) has no fallback, so a failed connection there ends
\* deploy.sh under set -e.  The comparison of log tails (lines 361-374)
\* can set SETUP_EXIT_CODE=0 only for a log that is empty and yet holds a
\* success line, so it never does
MonitorPoll ==
  /\ loc.deploy.phase = "monitor"
  /\ loc.deploy.counter < DeployTimeout
  /\ \E r \in RunningAnswers, quickOk \in BOOLEAN, grepOk \in BOOLEAN,
        progressOk \in BOOLEAN :
       LET d == loc.deploy
           found(code) == [d EXCEPT !.setupExitCode = code, !.phase = "final"]
           slept == [d EXCEPT !.counter = @ + DeployPoll,
                              !.phase = IF d.counter + DeployPoll >= DeployTimeout
                                        THEN "timeout" ELSE "monitor"]
       IN loc' = [loc EXCEPT !.deploy =
            IF d.counter >= QuickCheckAfter /\ quickOk /\ SuccessLogged
            THEN found(0)
            ELSE IF r = "NOT_RUNNING"
            THEN IF grepOk /\ d.marker # "none" THEN found(0)
                 ELSE IF grepOk /\ SuccessLogged THEN found(0)
                 ELSE found(1)
            ELSE IF r = "SSH_FAILED" THEN slept
            ELSE IF d.counter % ProgressEvery = 0
            THEN IF ~progressOk THEN [d EXCEPT !.phase = "done", !.exit = 255]
                 ELSE IF grepOk /\ SuccessLogged THEN found(0)
                 ELSE slept
            ELSE slept]
  /\ UNCHANGED <<config, host, pc, results, calls, snap>>

\* deploy.sh:408-431: the timeout.  A setup that still runs is killed; the
\* log decides between 0 and 124
MonitorTimeout ==
  /\ loc.deploy.phase = "timeout"
  /\ \E pgrepOk \in BOOLEAN, grepOk \in BOOLEAN :
       LET kill == pgrepOk /\ SetupRunning
       IN /\ pc' = IF kill THEN "exited" ELSE pc
          /\ loc' = [loc EXCEPT !.exitCode = IF kill THEN Killed ELSE @,
                                !.deploy.setupExitCode =
                                   IF grepOk /\ SuccessLogged THEN 0 ELSE 124,
                                !.deploy.phase = "final"]
  /\ UNCHANGED <<config, host, results, calls, snap>>

\* deploy.sh:433-475: the final status check
FinalStatus ==
  /\ loc.deploy.phase = "final"
  /\ \E tailOk \in BOOLEAN :
       loc' = [loc EXCEPT !.deploy =
                 IF @.setupExitCode # 0 /\ ~tailOk
                 THEN [@ EXCEPT !.phase = "done", !.exit = 1]
                 ELSE [@ EXCEPT !.phase = "errors"]]
  /\ UNCHANGED <<config, host, pc, results, calls, snap>>

\* deploy.sh:477-513: a non-zero SETUP_EXIT_CODE ends deploy.sh with status
\* 1 unless the downloaded log holds SETUP_COMPLETED
HandleErrors ==
  /\ loc.deploy.phase = "errors"
  /\ \E scpOk \in BOOLEAN :
       loc' = [loc EXCEPT !.deploy =
                 IF @.setupExitCode = 0 THEN [@ EXCEPT !.phase = "outputs"]
                 ELSE IF scpOk /\ @.marker # "none"
                 THEN [@ EXCEPT !.setupExitCode = 0, !.phase = "outputs"]
                 ELSE [@ EXCEPT !.phase = "done", !.exit = 1]]
  /\ UNCHANGED <<config, host, pc, results, calls, snap>>

\* deploy.sh:515-575: accessibility test (its result is only reported), log
\* download (a failure ends deploy.sh under set -e), outputs
SetOutputs ==
  /\ loc.deploy.phase = "outputs"
  /\ \E scpOk \in BOOLEAN :
       loc' = [loc EXCEPT !.deploy =
                 IF scpOk
                 THEN [@ EXCEPT !.phase = "done", !.exit = 0, !.urlWritten = TRUE]
                 ELSE [@ EXCEPT !.phase = "done", !.exit = 1]]
  /\ UNCHANGED <<config, host, pc, results, calls, snap>>

NextDeploy ==
  \/ FinalValidation
  \/ HttpAttempt
  \/ WriteOutputs
  \/ MainCatch
  \/ CompletionMonitor
  \/ MonitorPoll
  \/ MonitorTimeout
  \/ FinalStatus
  \/ HandleErrors
  \/ SetOutputs

SpecDeploy == InitDeploy /\ [][NextDeploy]_vars

(***************************************************************************)
(* The run that follows a fresh install which aborted at a fatal step:     *)
(* its detection and selection steps, with the same configuration          *)
(***************************************************************************)
\* the hosts an aborted performInstallation leaves: the manifest copied by
\* deploy.sh, the directories (mautic-deployer.ts:171) and .mautic_env
\* (175) are there; the containers are missing when they could not be
\* started (199-216) and run when the installer failed afterwards (247);
\* the installer has not completed
AbortedInstallHosts(cfg) ==
  {[compose      |-> TRUE,
    composeImage |-> TemplateImage,
    dirs         |-> TRUE,
    env          |-> "0600",
    envVersion   |-> baseVersion(cfg.mauticVersion),
    web          |-> c[1],
    db           |-> c[2],
    volumes      |-> TRUE,
    appInstalled |-> FALSE] :
     c \in {<<NotFound, NotFound>>}
            \cup {<<Container(imageName(cfg.mauticVersion), "running", hw),
                    Container(DbImage, "running", "healthy")>> : hw \in {"", "healthy"}}}

InitRetry ==
  /\ config \in Configs
  /\ host \in AbortedInstallHosts(config)
  /\ pc = "main_start"
  /\ results = [p \in Probes |-> "pending"]
  /\ loc = InitLoc
  /\ calls = <<>>
  /\ snap = NoSnap

NextRetry ==
  \/ StartIsInstalled
  \/ CheckDockerCompose
  \/ CheckMauticDirectories
  \/ CheckDatabase
  \/ CheckConfigFiles
  \/ IsInstalledReturn
  \/ MainBranch
  \/ NeedsUpdate

SpecRetry == InitRetry /\ [][NextRetry]_vars

(***************************************************************************)
(* The download command of installTheme (mautic-deployer.ts:612-671) and   *)
(* installPlugin (727-795), built for every source of the sets below       *)
(***************************************************************************)
SourceHosts == {"github.com", "api.github.com", "example.com", "github.com.example.net"}

SourcePaths ==
  {"owner/repo/archive/refs/heads/main.zip", "downloads/item.zip",
   "mirror/github.com/item.zip"}

UrlTokens == {"", "ghp_url"}

Directories == {"", "my-item"}

GlobalTokens == {"", "ghp_global"}

Sources == [host : SourceHosts, path : SourcePaths, token : UrlTokens,
            directory : Directories]

\* text.includes('github.com')
includesGithub(text) ==
  text \in {"github.com", "api.github.com", "github.com.example.net",
            "mirror/github.com/item.zip"}

\* url.includes('?')
hasQuery(u) == u.token # "" \/ u.directory # ""

\* lines 628-631 / 743-746: the archive path that the pattern matches
isArchivePath(path) == path = "owner/repo/archive/refs/heads/main.zip"

\* lines 617-638 / 732-753: cleanUrl, token and directory
parseSource(u) ==
  IF u.host = "github.com" /\ hasQuery(u)
  THEN IF u.token # "" /\ isArchivePath(u.path)
       THEN [host |-> "api.github.com", path |-> "repos/owner/repo/zipball/main",
             query |-> FALSE, token |-> u.token, directory |-> u.directory]
       ELSE [host |-> u.host, path |-> u.path, query |-> FALSE,
             token |-> u.token, directory |-> u.directory]
  ELSE [host |-> u.host, path |-> u.path, query |-> hasQuery(u),
        token |-> "", directory |-> ""]

\* lines 641 / 756
authToken(token, githubToken) == IF token # "" THEN token ELSE githubToken

\* fault variant: the headers are sent whenever a token is present
curlCommand_anyHost(clean, auth) ==
  [authorization |-> auth, host |-> clean.host, path |-> clean.path,
   query |-> clean.query]

\* lines 662-671 / 786-793
curlCommand(clean, auth) ==
  [authorization |-> IF auth # "" /\ (includesGithub(clean.host) \/ includesGithub(clean.path))
                     THEN auth ELSE "",
   host |-> clean.host, path |-> clean.path, query |-> clean.query]

InitDownload ==
  /\ config \in [mauticVersion : {<<"5.2.1">>}, domainName : {""},
                 ipAddress : {"203.0.113.5"}, port : {"8001"},
                 mauticThemes : {<<>>}, mauticPlugins : {<<>>},
                 githubToken : GlobalTokens]
  /\ host = BlankHost
  /\ pc = "download_start"
  /\ results = [p \in Probes |-> "pending"]
  /\ \E k \in {"theme", "plugin"}, u \in Sources :
       loc = [InitLoc EXCEPT !.download.kind = k, !.download.source = u]
  /\ calls = <<>>
  /\ snap = NoSnap

PrepareDownload ==
  /\ pc = "download_start"
  /\ LET clean == parseSource(loc.download.source)
     IN loc' = [loc EXCEPT !.download.command =
                  curlCommand(clean, authToken(clean.token, config.githubToken))]
  /\ Call(IF loc.download.kind = "theme" THEN "installTheme" ELSE "installPlugin")
  /\ pc' = "download_ready"
  /\ UNCHANGED <<config, host, results, snap>>

NextDownload == PrepareDownload

SpecDownload == InitDownload /\ [][NextDownload]_vars

(***************************************************************************)
(* updateDockerComposeVersion alone, on manifests of up to MaxLines lines, *)
(* each an image reference                                                 *)
(***************************************************************************)
MaxLines == 3

\* tags a mautic/mautic reference of a manifest may carry
ManifestTags ==
  {<<"5.2.0", "-apache">>, <<"5.2.0", "-beta", "-apache">>, <<"latest">>,
   <<"${MAUTIC_VERSION}">>}

ManifestLines == {<<"mautic/mautic", ":">> \o t : t \in ManifestTags} \cup {DbImage}

RECURSIVE ManifestsOf(_)
ManifestsOf(k) ==
  IF k = 1 THEN ManifestLines
  ELSE {m \o <<"\n">> \o l : m \in ManifestsOf(k - 1), l \in ManifestLines}

Manifests == UNION {ManifestsOf(k) : k \in 1..MaxLines}

\* performUpdate has pulled the image and is about to rewrite the manifest
InitManifest ==
  /\ config \in {c \in Configs : c.domainName = "" /\ ~hasExtensions(c)}
  /\ \E m \in Manifests :
       host = [InstalledHost(Container(imageName(<<"5.2.0">>), "running", "healthy"))
                 EXCEPT !.composeImage = m]
  /\ pc = "update_compose"
  /\ results = [p \in Probes |-> "pending"]
  /\ loc = [InitLoc EXCEPT !.isInstalled = "true", !.needsUpdate = "true",
                           !.currentVersion = baseVersion(<<"5.2.0">>),
                           !.proc = "update", !.pullSuccess = "true"]
  /\ calls = <<"isInstalled", "needsUpdate", "performUpdate", "pullImage">>
  /\ snap = NoSnap

NextManifest == UpdateDockerComposeVersion

SpecManifest == InitManifest /\ [][NextManifest]_vars

(***************************************************************************)
(* isInstalled alone: the four probes on every initial host, with the      *)
(* order of their completion observed                                      *)
(***************************************************************************)
InitProbes ==
  /\ config = [mauticVersion |-> <<"5.2.1">>, domainName |-> "",
               ipAddress |-> "203.0.113.5", port |-> "8001",
               mauticThemes |-> <<>>, mauticPlugins |-> <<>>,
               githubToken |-> ""]
  /\ host \in InitHosts
  /\ pc = "main_start"
  /\ results = [p \in Probes |-> "pending"]
  /\ loc = [InitLoc EXCEPT !.completed = <<>>]
  /\ calls = <<>>
  /\ snap = NoSnap

NextProbes ==
  \/ StartIsInstalled
  \/ CheckDockerCompose
  \/ CheckMauticDirectories
  \/ CheckDatabase
  \/ CheckConfigFiles
  \/ IsInstalledReturn

SpecProbes == InitProbes /\ [][NextProbes]_vars

(***************************************************************************)
(* Properties                                                              *)
(***************************************************************************)
InCalls(name) == \E i \in 1..Len(calls) : calls[i] = name

CountCalls(name) == Cardinality({i \in 1..Len(calls) : calls[i] = name})

Returned == pc \in {"proc_return", "ssl", "final_validation", "http_test",
                    "outputs", "catch", "exited"}

AbortedProcedure ==
  /\ loc.procResult = "false"
  /\ pc \in {"proc_return", "catch", "exited"}
  /\ pc = "exited" => loc.exitCode = 1

\* C1: performInstallation is invoked only after isInstalled() returned
\* false and performUpdate only after it returned true; no run invokes both,
\* and isInstalled() is evaluated once per run.
C1_ClassificationGatesProcedure ==
  /\ InCalls("performInstallation") => loc.isInstalled = "false"
  /\ InCalls("performUpdate") => loc.isInstalled = "true"
  /\ ~(InCalls("performInstallation") /\ InCalls("performUpdate"))
  /\ CountCalls("isInstalled") <= 1
  /\ CountCalls("performInstallation") + CountCalls("performUpdate") <= 1

C1_Witness ==
  /\ InCalls("performInstallation")
  /\ loc.procResult = "true"
  /\ pc = "exited"

\* C2: when isInstalled returns, it returns true exactly when at most one
\* of the four probes returned false, i.e. at least 3 of 4 returned true.
C2_QuorumThreeOfFour ==
  pc = "classified" =>
    ((loc.isInstalled = "true") <=>
       (\E q \in Probes : \A p \in Probes \ {q} : results[p] = "true"))

C2_Witness ==
  /\ pc = "classified"
  /\ loc.isInstalled = "true"
  /\ \E q \in Probes : results[q] = "false"

\* C3: a probe whose remote command or container inspection failed counts
\* as false, and probing always ends in a classification computed from the
\* probe results: no step of isInstalled leads to the error handler.
C3_FailedProbeCountsFalse ==
  [][pc = "probing" =>
       /\ pc' \in {"probing", "classified"}
       /\ \A p \in loc'.probeFailed : results'[p] = "false"
       /\ pc' = "classified" =>
            /\ loc'.isInstalled \in {"true", "false"}
            /\ (loc'.isInstalled = "true") <=>
                 (Cardinality({p \in Probes \ loc'.probeFailed :
                                 results'[p] = "true"}) >= 3)]_vars

C3_Witness ==
  /\ pc = "classified"
  /\ loc.probeFailed # {}
  /\ loc.isInstalled = "true"

NoopForbiddenCalls ==
  {"pullImage", "updateDockerComposeVersion", "recreateContainers",
   "performUpdate", "performInstallation"}

\* C4: when isInstalled() is true and needsUpdate() is false, none of
\* pullImage, updateDockerComposeVersion, recreateContainers, performUpdate
\* and performInstallation is invoked, and the host (containers, manifest,
\* environment file) stays as main found it.
C4_NoopTouchesNothing ==
  (loc.isInstalled = "true" /\ loc.needsUpdate = "false") =>
    /\ \A n \in NoopForbiddenCalls : ~InCalls(n)
    /\ snap.taken /\ host = snap.host

C4_Witness ==
  /\ loc.isInstalled = "true"
  /\ loc.needsUpdate = "false"
  /\ pc = "exited"
  /\ loc.exitCode = 0

\* C5: needsUpdate returns true exactly when the version reported for the
\* web container is absent or differs from the configured version.
C5_NeedsUpdateIffAbsentOrDifferent ==
  loc.needsUpdate # "unset" =>
    ((loc.needsUpdate = "true") <=>
       (loc.currentVersion = NULL \/ loc.currentVersion # config.mauticVersion))

C5_Witness ==
  /\ loc.needsUpdate = "false"
  /\ loc.currentVersion = config.mauticVersion

StateChangingCalls ==
  {"mkdir", "writeEnv", "chmodEnv", "recreateContainers",
   "waitForHealthy:mautic_db", "waitForHealthy:mautic_web",
   "mautic:install", "clearCache", "installThemesAndPlugins",
   "pullImage", "updateDockerComposeVersion"}

IsStateChanging(name) == name \in StateChangingCalls

InstallSequence ==
  <<"mkdir", "writeEnv", "chmodEnv", "recreateContainers",
    "waitForHealthy:mautic_db", "waitForHealthy:mautic_web",
    "mautic:install", "clearCache">>

\* C6: a performInstallation that succeeds has issued exactly: create data
\* directories, write .mautic_env and set it owner-only, recreateContainers,
\* wait db, wait web, installer, clearCache, then (extensions configured)
\* the extension installer and a second clearCache; never pullImage or
\* updateDockerComposeVersion.
C6_InstallOrder ==
  (loc.proc = "install" /\ loc.procResult = "true") =>
    /\ SelectSeq(calls, IsStateChanging) =
         InstallSequence \o
           (IF hasExtensions(config)
            THEN <<"installThemesAndPlugins", "clearCache">> ELSE <<>>)
    /\ host.env = "0600"

C6_Witness ==
  /\ loc.proc = "install"
  /\ loc.procResult = "true"
  /\ loc.healthyDb = "true"
  /\ loc.healthyWeb = "true"
  /\ hasExtensions(config)
  /\ host.dirs

\* C7 (as claimed): the installer command runs only after both health
\* waits of performInstallation returned true.
C7_InstallerOnlyAfterHealthy ==
  (loc.proc = "install" /\ InCalls("mautic:install")) =>
    (loc.healthyDb = "true" /\ loc.healthyWeb = "true")

AfterRecreateCalls ==
  {"waitForHealthy:mautic_db", "waitForHealthy:mautic_web",
   "mautic:install --help", "mautic:install", "clearCache",
   "installThemesAndPlugins"}

\* C8: in performInstallation, when recreateContainers returns false, no
\* health wait, installer command, cache clear or extension installation
\* follows and performInstallation returns false.
C8_InstallAbortsOnRecreateFailure ==
  (loc.proc = "install" /\ loc.recreateSuccess = "false") =>
    /\ \A n \in AfterRecreateCalls : ~InCalls(n)
    /\ AbortedProcedure

C8_Witness ==
  /\ loc.proc = "install"
  /\ loc.recreateSuccess = "false"
  /\ pc = "exited"

\* C9: when the installer command fails, neither clearCache nor the
\* extension installer runs, performInstallation returns false and the run
\* ends with exit status 1.
C9_InstallAbortsOnInstallerFailure ==
  loc.installerOk = "false" =>
    /\ ~InCalls("clearCache")
    /\ ~InCalls("installThemesAndPlugins")
    /\ AbortedProcedure

C9_Witness ==
  /\ loc.installerOk = "false"
  /\ pc = "exited"
  /\ loc.exitCode = 1

\* C10: in performUpdate, when pullImage returns false, the manifest is not
\* rewritten and recreateContainers is not called: the host is as the run
\* found it and performUpdate returns false.
C10_UpdateAbortsOnPullFailure ==
  loc.pullSuccess = "false" =>
    /\ ~InCalls("updateDockerComposeVersion")
    /\ ~InCalls("recreateContainers")
    /\ snap.taken /\ host = snap.host
    /\ AbortedProcedure

C10_Witness ==
  /\ loc.pullSuccess = "false"
  /\ pc = "exited"
  /\ loc.exitCode = 1

\* C11: performUpdate returns true exactly when pullImage, the rewrite of
\* the compose manifest, recreateContainers and both health waits
\* succeeded; whether clearCache succeeded does not matter.
C11_UpdateTrueIffAllStepsSucceeded ==
  (loc.proc = "update" /\ loc.procResult # "unset") =>
    /\ (loc.procResult = "true") <=>
         /\ loc.pullSuccess = "true"
         /\ loc.rewriteOk = "true"
         /\ loc.recreateSuccess = "true"
         /\ loc.healthyWeb = "true"
         /\ loc.healthyDb = "true"
    /\ loc.cacheFailed # "unset" => loc.procResult = "true"

C11_Witness ==
  /\ loc.proc = "update"
  /\ loc.procResult = "true"
  /\ loc.cacheFailed = "true"
  /\ loc.healthyDb = "true"

\* C12: no step of an upgrade deletes the data directories or the volumes
\* of the containers.
C12_UpdateKeepsData ==
  [][loc.proc = "update" =>
       /\ host.dirs => host'.dirs
       /\ host.volumes => host'.volumes]_vars

C12_Witness ==
  /\ loc.proc = "update"
  /\ loc.procResult = "true"
  /\ InCalls("recreateContainers")
  /\ host.dirs
  /\ host.volumes
  /\ pc = "exited"

\* C13: once the chosen procedure has returned false, main goes to its
\* error handler and exits with status 1; it never runs setupSSL, never
\* runs the connectivity check and never emits deployment_status=success.
C13_FalseResultEndsRun ==
  loc.procResult = "false" =>
    /\ pc \in {"proc_return", "catch", "exited"}
    /\ pc = "exited" => loc.exitCode = 1
    /\ ~InCalls("setupSSL")
    /\ ~InCalls("listMauticContainers")
    /\ ~InCalls("curl")
    /\ ~InCalls("deployment_status=success")

C13_Witness ==
  /\ loc.procResult = "false"
  /\ pc = "exited"
  /\ loc.exitCode = 1
  /\ config.domainName # ""

\* C14 (as stated): every run that has terminated emitted either the
\* success marker or a failure marker in its output.
C14_TerminatedRunEmittedMarker ==
  pc = "exited" =>
    \/ InCalls("deployment_status=success")
    \/ InCalls("deployment_status=failed")

\* the criterion of docker-manager.ts:105-110 on the polled container itself
MeetsCriterion(c) ==
  c.exists /\ c.status = "running" /\ c.health \in {"", "healthy"}

Polled == HostContainer(host, loc.waitName)

\* the current waitForHealthy call returns r in this step
WaitReturnsIn(r) ==
  /\ pc = "wait"
  /\ IF loc.waitName = "mautic_db"
     THEN loc.healthyDb = "unset" /\ loc'.healthyDb = r
     ELSE loc.healthyWeb = "unset" /\ loc'.healthyWeb = r

\* the current waitForHealthy call sleeps one interval in this step
Slept ==
  /\ pc = "wait"
  /\ pc' = "wait"
  /\ loc'.waitName = loc.waitName
  /\ loc'.waitI = loc.waitI + PollInterval

\* the poll of this step could not inspect the container
FailedInspection == Slept /\ loc'.events = loc.events + 1

\* C15: waitForHealthy returns true only at a poll at which the container
\* is running with health absent or 'healthy'; and no poll that inspected
\* such a container sleeps, so a container that meets the criterion at the
\* call is reported at once, at elapsed time 0 when it is the first poll.
C15_TrueOnlyWhenHealthyAndAtOnce ==
  [][/\ WaitReturnsIn("true") => MeetsCriterion(Polled)
     /\ (Slept /\ ~FailedInspection) => ~MeetsCriterion(Polled)]_vars

C15_Witness ==
  /\ loc.proc = "install"
  /\ pc = "install_help"
  /\ loc.healthyWeb = "true"
  /\ host.web.status = "running"
  /\ host.web.health = ""

CeilDiv(a, b) == (a + b - 1) \div b

\* C16: a waitForHealthy(name, T) call makes at most ceil(T/15) polls, each
\* followed by a 15 s sleep unless it returns true; it returns false only
\* after ceil(T/15) polls, that is no earlier than T seconds after the
\* call; it raises nothing; and a poll that inspects a container meeting
\* the criterion returns true whatever the earlier polls saw.
C16_BoundedPollingThenFalse ==
  [][pc = "wait" =>
       /\ loc.waitI % PollInterval = 0
       /\ loc.waitI <= PollInterval * CeilDiv(loc.waitTimeout, PollInterval)
       /\ WaitReturnsIn("false") =>
            /\ loc.waitI >= loc.waitTimeout
            /\ loc.waitI = PollInterval * CeilDiv(loc.waitTimeout, PollInterval)
       /\ pc' \in {"wait", "install_help"}
       /\ loc'.procResult = "unset"
       /\ (host' = host /\ loc.waitI > 0 /\ loc.waitI < loc.waitTimeout
             /\ MeetsCriterion(Polled) /\ ~FailedInspection)
            => WaitReturnsIn("true")]_vars

\* a call with T = 20 has made its ceil(20/15) = 2 polls, slept 30 s, and
\* is about to return false
C16_Witness ==
  /\ pc = "wait"
  /\ loc.waitTimeout = 20
  /\ loc.waitI = 2 * PollInterval
  /\ ~MeetsCriterion(Polled)

\* C17: the site URL given to the installer is https://{domain} when a
\* domain is configured, whatever the host and port, and
\* http://{host}:{port} exactly when none is.
C17_InstallerSiteUrl ==
  loc.siteUrl # NULL =>
    /\ config.domainName # "" => loc.siteUrl = <<"https://", config.domainName>>
    /\ config.domainName = "" =>
         loc.siteUrl = <<"http://", config.ipAddress, ":", config.port>>
    /\ (loc.siteUrl[1] = "http://") <=> (config.domainName = "")

C17_Witness ==
  /\ InCalls("mautic:install")
  /\ config.domainName # ""
  /\ loc.siteUrl = <<"https://", "mkt.example.com">>

\* C18 (as stated): the URL main verifies and reports is https://{domain}
\* when a domain is configured, else http://{host}:{port}, and so equals
\* the site URL of the installer.
C18_VerifiedUrlIsSiteUrl ==
  loc.baseUrl # NULL =>
    /\ config.domainName # "" => loc.baseUrl = <<"https://", config.domainName>>
    /\ config.domainName = "" =>
         loc.baseUrl = <<"http://", config.ipAddress, ":", config.port>>
    /\ loc.siteUrl # NULL => loc.baseUrl = loc.siteUrl

\* C19: a failing clearCache never propagates: the step after it is the one
\* that follows a successful clearCache, and a procedure that reached
\* clearCache returns true.
C19_ClearCacheNeverPropagates ==
  /\ loc.cacheFailed # "unset" => loc.procResult # "false"
  /\ (loc.cacheFailed # "unset" /\ Returned) => loc.procResult = "true"

C19_Witness ==
  /\ loc.proc = "install"
  /\ loc.cacheFailed = "true"
  /\ loc.procResult = "true"
  /\ pc = "exited"
  /\ loc.exitCode = 0

\* items whose download or extraction failed, counted as failed or not
extFailures == loc.extCmdFailed

ItemNames ==
  {config.mauticThemes[i] : i \in 1..Len(config.mauticThemes)}
    \cup {config.mauticPlugins[i] : i \in 1..Len(config.mauticPlugins)}

IsItem(c) == c \in ItemNames

\* the items attempted so far, in the order of the attempts
ItemCalls == SelectSeq(calls, IsItem)

BatchDone ==
  InCalls("installThemesAndPlugins")
    /\ pc \notin {"ext_themes", "ext_plugins", "proc_return"}

C22_InvalidPayloadRejected ==
  loc.item.payload = "invalid" =>
    /\ ~loc.item.extractRun
    /\ loc.item.counted = "failure"

ProcedureCalls ==
  StateChangingCalls \cup ItemNames
    \cup {"isInstalled", "needsUpdate", "performInstallation", "performUpdate",
          "createDockerCompose", "mautic:install --help"}
    \cup {recreateCommands[i] : i \in 1..Len(recreateCommands)}

VerificationCalls ==
  {"listMauticContainers", "curl", "sleep", SuccessLine, "deployment_status=success"}

PastSSL == pc \in {"final_validation", "http_test", "outputs"} \/ InCalls("listMauticContainers")

\* C23: setupSSL is invoked exactly when a domain is configured and the
\* selected procedure (install, upgrade or no-op) ended successfully; then
\* it is invoked once, after every call of the procedure and before the
\* final verification starts.
C23_SSLOnceAfterSuccessWithDomain ==
  /\ InCalls("setupSSL") =>
       /\ config.domainName # ""
       /\ loc.procResult = "true" \/ loc.proc = "noop"
       /\ CountCalls("setupSSL") = 1
       /\ \A i, j \in 1..Len(calls) :
            calls[i] = "setupSSL" =>
              /\ calls[j] \in ProcedureCalls => j < i
              /\ calls[j] \in VerificationCalls => i < j
  /\ PastSSL =>
       /\ loc.procResult = "true" \/ loc.proc = "noop"
       /\ InCalls("setupSSL") <=> (config.domainName # "")

C23_Witness ==
  /\ loc.proc = "noop"
  /\ InCalls("setupSSL")
  /\ InCalls("curl")
  /\ pc = "exited"
  /\ loc.exitCode = 0

\* C24 (as stated): when themes or plugins are configured and the selected
\* procedure succeeded, whichever it was, the extension installer has run
\* by the time TLS provisioning is due.
C24_ExtensionsInstalledByEveryProcedure ==
  (hasExtensions(config)
     /\ pc \in {"ssl", "final_validation", "http_test", "outputs"}) =>
    InCalls("installThemesAndPlugins")

\* C25 (as stated): whenever .mautic_env exists its mode is 0600, in every
\* state of a run, the one between the write and the chmod included.
C25_EnvFileAlwaysOwnerOnly ==
  host.env # "absent" => host.env = "0600"

BringUpCommands ==
  {"docker compose up -d", "docker compose up -d --wait --wait-timeout 300"}

\* C26 (as stated): recreateContainers brings the services up only right
\* after it has validated the manifest, and with a bounded readiness wait.
C26_ValidateThenBoundedBringUp ==
  \A i \in 1..Len(calls) :
    calls[i] \in BringUpCommands =>
      /\ calls[i] = "docker compose up -d --wait --wait-timeout 300"
      /\ i > 1
      /\ calls[i - 1] = "docker compose config"

Max(S) == CHOOSE x \in S : \A y \in S : x >= y

\* the part of s after its last ":" (all of s when it holds none)
afterLastColon(s) ==
  IF ColonPositions(s) = {} THEN s
  ELSE SubSeq(s, Max(ColonPositions(s)) + 1, Len(s))

DetectionSteps == {"main_start", "probing", "classified", "needs_update"}

\* C28: isInstalled with its four probes, needsUpdate and
\* getCurrentMauticVersion leave the host as it is: no file, directory,
\* volume or container changes in any of their steps.
C28_DetectionIsReadOnly ==
  [][(pc \in DetectionSteps) => (host' = host)]_vars

\* a whole detection has run: installed, and no update needed
C28_Witness ==
  /\ loc.isInstalled = "true"
  /\ loc.needsUpdate = "false"
  /\ snap.taken
  /\ host = snap.host
  /\ InCalls("needsUpdate")

\* C29 (as stated): a run that follows a successful run with the same
\* configuration classifies the target as installed (no probe having
\* failed) and, once it has read the running version, finds that no update
\* is needed and takes the no-op branch.
C29_SecondRunIsNoop ==
  /\ (pc = "classified" /\ loc.probeFailed = {}) => loc.isInstalled = "true"
  /\ (loc.needsUpdate # "unset" /\ loc.currentVersion # NULL) =>
       /\ loc.needsUpdate = "false"
       /\ loc.proc = "noop"
       /\ pc = "ssl"

\* C30: a ProcessResult that runShell returns has success = true exactly
\* when its exit code, which is the command's, is 0; with ignoreError a
\* command that exits non-zero returns success = false with that exit code
\* and raises nothing.
C30_SuccessIffExitZero ==
  pc = "shell_done" =>
    LET sh == loc.shell
    IN /\ ~sh.result.raised =>
            /\ sh.result.exitCode = sh.exitCode
            /\ sh.result.success <=> (sh.result.exitCode = 0)
       /\ (sh.ignoreError /\ sh.exitCode # 0) =>
            /\ ~sh.result.raised
            /\ ~sh.result.success
            /\ sh.result.exitCode = sh.exitCode

\* the second test of test.ts: "false" run with ignoreError
C30_Witness ==
  /\ pc = "shell_done"
  /\ loc.shell.ignoreError
  /\ loc.shell.exitCode = 1
  /\ loc.shell.result = [raised |-> FALSE, success |-> FALSE, exitCode |-> 1]

\* the order in which performUpdate takes its steps (mautic-deployer.ts:
\* 108-132)
UpdateOrder ==
  <<"pullImage", "updateDockerComposeVersion", "recreateContainers",
    "waitForHealthy:mautic_web", "waitForHealthy:mautic_db", "clearCache">>

UpdateStepNames == {UpdateOrder[i] : i \in 1..Len(UpdateOrder)}

\* the steps of performUpdate that the run has taken so far, in order
UpdateStepsTaken == SelectSeq(calls, LAMBDA c : c \in UpdateStepNames)

ResultBag ==
  LET vals == {results[p] : p \in Probes}
  IN [v \in vals |-> Cardinality({p \in Probes : results[p] = v})]

\* the classification a multiset of four results stands for
ClassOf(bag) == B(CopiesIn("true", bag) >= QuorumThreshold)

\* C32: the four probes are all started before any completes and complete
\* in any order; whatever the order, isInstalled returns when all four have
\* completed, and the classification is a function of the multiset of the
\* four results.
C32_ClassificationFromMultiset ==
  /\ pc = "probing" =>
       \A p \in Probes : results[p] = "pending" <=>
                           ~\E i \in 1..Len(loc.completed) : loc.completed[i] = p
  /\ pc = "classified" =>
       /\ Len(loc.completed) = Cardinality(Probes)
       /\ BagCardinality(ResultBag) = Cardinality(Probes)
       /\ CopiesIn("pending", ResultBag) = 0
       /\ loc.isInstalled = ClassOf(ResultBag)

\* the probes completed in the reverse of the order they were started in,
\* and the first to complete returned false
C32_Witness ==
  /\ pc = "classified"
  /\ loc.completed = <<"config", "db", "dirs", "compose">>
  /\ results["config"] = "false"
  /\ loc.isInstalled = "true"

\* positions where a mautic/mautic image reference starts in manifest s
RefPositions(s) ==
  {i \in 1..(Len(s) - 1) : s[i] = "mautic/mautic" /\ s[i + 1] = ":"}

\* the position after the last token of the line that holds position i
RECURSIVE lineEnd(_, _)
lineEnd(s, i) ==
  IF i > Len(s) \/ s[i] = "\n" THEN i ELSE lineEnd(s, i + 1)

\* the tag of the reference that starts at position i
tagAt(s, i) == SubSeq(s, i + 2, lineEnd(s, i) - 1)

\* positions of s that belong to the tag of a mautic/mautic reference
TagPositions(s) ==
  {j \in 1..Len(s) : \E i \in RefPositions(s) : i + 2 <= j /\ j < lineEnd(s, i)}

\* manifest s without the tags of its mautic/mautic references
RECURSIVE skeletonFrom(_, _)
skeletonFrom(s, j) ==
  IF j > Len(s) THEN <<>>
  ELSE (IF j \in TagPositions(s) THEN <<>> ELSE <<s[j]>>) \o skeletonFrom(s, j + 1)

Skeleton(s) == skeletonFrom(s, 1)

\* C33 (as stated): a rewrite of the manifest for version V leaves every
\* mautic/mautic reference with the tag norm(V), whatever tag it carried,
\* leaves the rest of the manifest as it was, and is idempotent.
C33_RewriteSetsEveryTag ==
  [][(pc = "update_compose" /\ loc'.rewriteOk = "true") =>
       /\ \A i \in RefPositions(host'.composeImage) :
            tagAt(host'.composeImage, i) = baseVersion(config.mauticVersion)
       /\ Skeleton(host'.composeImage) = Skeleton(host.composeImage)
       /\ updatedContent(host'.composeImage, config.mauticVersion) =
            host'.composeImage]_vars

SourceForge == {"github.com", "api.github.com"}

\* a token is present for the download: in the source URL, else the global
\* one
TokenPresent == loc.download.source.token # "" \/ config.githubToken # ""

\* C34 (as stated): the download command carries the Authorization header
\* exactly when a token is present and the host of the source URL is
\* github.com or api.github.com; a download from any other host carries no
\* token.
C34_TokenOnlyToSourceForge ==
  pc = "download_ready" =>
    /\ (loc.download.command.authorization # "") <=>
         (TokenPresent /\ loc.download.source.host \in SourceForge)
    /\ loc.download.command.host \notin SourceForge =>
         loc.download.command.authorization = ""

C36_InstalledBranchNeedsInstaller ==
  /\ (pc = "classified" /\ ~host.appInstalled) => loc.isInstalled = "false"
  /\ (pc = "needs_update" \/ loc.proc \in {"update", "noop"}) => host.appInstalled

\* C37 (as stated): an item is counted as successful only if its download
\* and its extraction both succeeded; an item whose download or extraction
\* failed is counted as failed.
C37_SuccessCountNeedsBothCommands ==
  loc.item.counted # "none" =>
    (loc.item.counted = "success") <=>
      (loc.item.payload # "none" /\ loc.item.extractOk)

\* C38: the HTTP check makes at most 3 attempts and none after one that
\* passed, pauses 15 seconds only between two attempts, and always ends; whatever its
\* outcome, main goes on to write its outputs, and a run that wrote
\* deployment_status=success exits with status 0.
C38_HttpCheckBoundedAndHarmless ==
  /\ [](/\ CountCalls("curl") <= MaxAttempts
        /\ CountCalls("sleep") <= MaxAttempts - 1
        /\ loc.httpSlept = RetryPause * CountCalls("sleep")
        /\ (pc = "http_test" /\ loc.attempt > 1) => loc.httpPassed = "false"
        /\ \A i \in 1..Len(calls) :
             calls[i] = "sleep" =>
               /\ i > 1 /\ calls[i - 1] = "curl"
               /\ IF i = Len(calls) THEN pc = "http_test" ELSE calls[i + 1] = "curl"
        /\ (pc = "exited" /\ loc.httpPassed # "unset") =>
             (loc.exitCode = 0 <=> InCalls("deployment_status=success")))
  /\ [][(pc = "http_test") =>
          /\ pc' \in {"http_test", "outputs"}
          /\ loc'.httpPassed = "true" => pc' = "outputs"]_vars
  /\ (pc = "http_test") ~> (pc = "exited")

\* three failed attempts with two pauses, and the run still ends normally
C38_Witness ==
  /\ pc = "exited"
  /\ loc.exitCode = 0
  /\ loc.httpPassed = "false"
  /\ CountCalls("curl") = MaxAttempts
  /\ CountCalls("sleep") = MaxAttempts - 1
  /\ InCalls("deployment_status=success")

\* C39 (as stated): when the setup binary ended with a non-zero status,
\* deploy.sh ends with a non-zero status and has written no mautic-url;
\* deploy.sh ends with status 0 only if the setup binary exited 0 or logged
\* its success line.
C39_DeployFailsWhenSetupFailed ==
  loc.deploy.phase = "done" =>
    /\ (~SetupRunning /\ loc.exitCode # 0) =>
         (loc.deploy.exit # 0 /\ ~loc.deploy.urlWritten)
    /\ loc.deploy.exit = 0 =>
         ((~SetupRunning /\ loc.exitCode = 0) \/ SuccessLogged)

====
